---- MODULE Spec2Model ----
(***************************************************************************)
(* Model of protoc-gen-bq-schema (src/main.go): the package namespace      *)
(* (globalPkg, registerType, lookupType), the recursive schema conversion  *)
(* (convertField / convertMessageType) and the drivers convertFile and     *)
(* Convert.                                                                *)
(*                                                                         *)
(* Strings that the code splits on "." are represented by the tuple of     *)
(* their components, i.e. by strings.Split(s, "."):                        *)
(*     ""      is <<"">>          "a.b"  is <<"a", "b">>                   *)
(*     ".a.B"  is <<"", "a", "B">>                                         *)
(* so  s + "." + c  is Append(s, c),  s[1:] of a string with prefix "."    *)
(* is Tail(s), and a string without "." is a tuple of length 1.  Simple    *)
(* names (message, field, component names) are TLA+ strings.               *)
(*                                                                         *)
(* A Go pointer or (value, ok) pair that may be nil / not-ok is a tuple of *)
(* length 0 or 1.  A Go map is a function; "k in map" is k \in DOMAIN.     *)
(***************************************************************************)
EXTENDS Naturals, Sequences, FiniteSets, TLC

VARIABLES
    globalPkg,   \* heap of ProtoPackage nodes, addressed by node name
    regLog,      \* history: the registerType calls of the current run
    query,       \* the last lookupType call and what it returned
    calls,       \* number of Convert invocations started in this process
    pc,          \* position of the running Convert invocation
    req,         \* Convert: the CodeGeneratorRequest
    ri,          \* Convert: position of the registration loops
    fi,          \* Convert: index of the conversion loop over req.proto_file
    res,         \* Convert: the CodeGeneratorResponse
    err,         \* Convert: the returned error
    filePkg,     \* convertFile: pkg, the file's package node
    mi,          \* convertFile: index of the loop over file.message_type
    response,    \* convertFile: the artifacts generated so far
    stack        \* active convertMessageType / convertField calls

vars == <<globalPkg, regLog, query, calls, pc, req, ri, fi, res, err, filePkg, mi,
          response, stack>>

convvars == <<calls, pc, req, ri, fi, res, err, filePkg, mi, response, stack>>

(***************************************************************************)
(* Bounds of the model.                                                    *)
(***************************************************************************)
MaxRegs == 3
MaxFiles == 2
MaxCalls == 2
MaxDepth == 4

(***************************************************************************)
(* Descriptors (descriptor.DescriptorProto, FieldDescriptorProto).         *)
(***************************************************************************)
NoOptions == <<>>

Msg(name, fields, nested, options) ==
    [name |-> name, field |-> fields, nested_type |-> nested, options |-> options]

(***************************************************************************)
(* The namespace: ProtoPackage and globalPkg.                              *)
(***************************************************************************)
EmptyMap == <<>>

\* Address of the root node; it is also its name, "".
GlobalPkgAddr == <<"">>

ProtoPackage(name, parent) ==
    [name |-> name, parent |-> parent, children |-> EmptyMap, types |-> EmptyMap]

\* var globalPkg = &ProtoPackage{name: "", parent: nil, ...}
globalPkgInit == GlobalPkgAddr :> ProtoPackage(GlobalPkgAddr, <<>>)

\* strings.HasPrefix(name, ".")
HasPrefixDot(name) == Len(name) > 1 /\ name[1] = ""

\* The loop of registerType over strings.Split(*pkgName, "."): returns the
\* heap with the missing nodes created, and the node reached.
RECURSIVE registerWalk(_, _, _)
registerWalk(g, pkg, nodes) ==
    IF nodes = <<>> THEN [g |-> g, pkg |-> pkg]
    ELSE LET node == Head(nodes) IN
         IF pkg = GlobalPkgAddr /\ node = ""
         THEN registerWalk(g, pkg, Tail(nodes))          \* skips leading "."
         ELSE IF node \in DOMAIN g[pkg].children
         THEN registerWalk(g, g[pkg].children[node], Tail(nodes))
         ELSE LET child == Append(g[pkg].name, node)
                  g1 == [g EXCEPT ![pkg].children = (node :> child) @@ @]
                  g2 == (child :> ProtoPackage(child, <<pkg>>)) @@ g1
              IN  registerWalk(g2, child, Tail(nodes))

\* A plausible slip: an existing entry is kept instead of being replaced.
registerType_keepFirst(g, pkgName, msg) ==
    LET w == IF pkgName = <<>> THEN [g |-> g, pkg |-> GlobalPkgAddr]
             ELSE registerWalk(g, GlobalPkgAddr, pkgName[1])
    IN  [w.g EXCEPT ![w.pkg].types = @ @@ (msg.name :> msg)]

\* registerType(pkgName *string, msg): pkgName is <<>> (nil) or <<string>>.
registerType(g, pkgName, msg) ==
    LET w == IF pkgName = <<>> THEN [g |-> g, pkg |-> GlobalPkgAddr]
             ELSE registerWalk(g, GlobalPkgAddr, pkgName[1])
    IN  [w.g EXCEPT ![w.pkg].types = (msg.name :> msg) @@ @]

\* relativelyLookupNestedType: for each component, the first nested type of
\* that name; not found as soon as a component has none.
RECURSIVE relativelyLookupNestedType(_, _)
relativelyLookupNestedType(desc, components) ==
    IF components = <<>> THEN <<desc>>
    ELSE LET hits == {i \in 1..Len(desc.nested_type) :
                         desc.nested_type[i].name = Head(components)}
         IN  IF hits = {} THEN <<>>
             ELSE LET first == CHOOSE i \in hits : \A j \in hits : i <= j
                  IN  relativelyLookupNestedType(desc.nested_type[first],
                                                 Tail(components))

\* (pkg *ProtoPackage) relativelyLookupType(name): strings.SplitN(name, ".", 2)
\* yields <<name[1]>> or <<name[1], Tail(name)>>.
RECURSIVE relativelyLookupType(_, _, _)
relativelyLookupType(g, pkg, name) ==
    IF Len(name) = 1
    THEN IF name[1] \in DOMAIN g[pkg].types THEN <<g[pkg].types[name[1]]>> ELSE <<>>
    ELSE IF name[1] \in DOMAIN g[pkg].children
    THEN relativelyLookupType(g, g[pkg].children[name[1]], Tail(name))
    ELSE IF name[1] \in DOMAIN g[pkg].types
    THEN relativelyLookupNestedType(g[pkg].types[name[1]], Tail(name))
    ELSE <<>>

\* The upward loop of lookupType: for ; pkg != nil; pkg = pkg.parent.
RECURSIVE lookupUp(_, _, _)
lookupUp(g, pkg, name) ==
    IF pkg = <<>> THEN <<>>
    ELSE LET r == relativelyLookupType(g, pkg[1], name)
         IN  IF r # <<>> THEN r ELSE lookupUp(g, g[pkg[1]].parent, name)

\* (pkg *ProtoPackage) lookupType(name)
lookupType(g, pkg, name) ==
    IF HasPrefixDot(name)
    THEN relativelyLookupType(g, GlobalPkgAddr, Tail(name))
    ELSE lookupUp(g, <<pkg>>, name)

\* (pkg *ProtoPackage) relativelyLookupPackage(name)
RECURSIVE relativelyLookupPackage(_, _, _)
relativelyLookupPackage(g, pkg, components) ==
    IF components = <<>> THEN <<pkg>>
    ELSE IF Head(components) \in DOMAIN g[pkg].children
    THEN relativelyLookupPackage(g, g[pkg].children[Head(components)], Tail(components))
    ELSE <<>>

(***************************************************************************)
(* Inputs of the namespace specification.                                  *)
(***************************************************************************)
Inner == Msg("Inner", <<>>, <<>>, NoOptions)
Outer == Msg("Outer", <<>>, <<Inner>>, NoOptions)
OuterB == Msg("Outer", <<>>, <<>>, NoOptions)        \* another message named Outer
Leaf == Msg("Leaf", <<>>, <<>>, NoOptions)

NsMessages == {Outer, OuterB, Leaf}

\* *string package arguments: nil, "p", "p.Outer", ".p" (leading separator)
NsPackages == {<<>>, <<<<"p">>>>, <<<<"p", "Outer">>>>, <<<<"", "p">>>>}

\* The node name of a package argument: "" for nil, else "." + the path
\* without leading separators.
RECURSIVE stripLeading(_)
stripLeading(s) == IF s # <<>> /\ Head(s) = "" THEN stripLeading(Tail(s)) ELSE s

NodeName(pkgName) ==
    IF pkgName = <<>> THEN GlobalPkgAddr ELSE <<"">> \o stripLeading(pkgName[1])

\* The fully-qualified absolute reference of a message of a package:
\* "." + package path + "." + simple name, ".Name" for the root package.
AbsRef(pkgName, simple) == Append(NodeName(pkgName), simple)

NsNames ==
    {AbsRef(p, m.name) : p \in NsPackages, m \in NsMessages}
      \cup {<<"Outer", "Inner">>, <<"Outer", "DoesNotExist">>, <<"Leaf">>,
            <<"p", "Leaf">>, <<"", "p", "Outer", "Inner">>}

NoQuery == <<>>

NoRequest == [file_to_generate |-> {}, proto_file |-> <<>>]
NoResponse == [File |-> <<>>, Error |-> <<>>]

Init ==
    /\ globalPkg = globalPkgInit
    /\ regLog = <<>>
    /\ query = NoQuery
    /\ calls = 0
    /\ pc = "idle"
    /\ req = NoRequest
    /\ ri = 1
    /\ fi = 1
    /\ res = NoResponse
    /\ err = <<>>
    /\ filePkg = <<>>
    /\ mi = 1
    /\ response = <<>>
    /\ stack = <<>>

\* registerType is called with some package and message.
NsRegister ==
    /\ Len(regLog) < MaxRegs
    /\ \E p \in NsPackages, m \in NsMessages :
          /\ globalPkg' = registerType(globalPkg, p, m)
          /\ regLog' = Append(regLog, [pkgName |-> p, msg |-> m])
    /\ query' = NoQuery
    /\ UNCHANGED convvars

\* lookupType, and relativelyLookupType, are called on some node with some
\* name.  A lookup changes nothing, so one lookup per namespace is enough.
NsLookup ==
    /\ query = NoQuery
    /\ \E pkg \in DOMAIN globalPkg, name \in NsNames :
          query' = <<[pkg |-> pkg, name |-> name,
                      found |-> lookupType(globalPkg, pkg, name),
                      here |-> relativelyLookupType(globalPkg, pkg, name)]>>
    /\ UNCHANGED <<globalPkg, regLog>>
    /\ UNCHANGED convvars

NextNs == NsRegister \/ NsLookup

SpecNs == Init /\ [][NextNs]_vars

(***************************************************************************)
(* The conversion tables.                                                  *)
(***************************************************************************)
WKT(simple) == <<"", "google", "protobuf", simple>>

typeFromWKT ==
    [t \in {WKT("Int32Value"), WKT("Int64Value"), WKT("UInt32Value"),
            WKT("UInt64Value"), WKT("DoubleValue"), WKT("FloatValue"),
            WKT("BoolValue"), WKT("StringValue"), WKT("BytesValue"),
            WKT("Duration"), WKT("Timestamp")} |->
        CASE t[4] \in {"Int32Value", "Int64Value", "UInt32Value", "UInt64Value"}
                 -> "INTEGER"
          [] t[4] \in {"DoubleValue", "FloatValue"} -> "FLOAT"
          [] t[4] = "BoolValue" -> "BOOLEAN"
          [] t[4] \in {"StringValue", "Duration"} -> "STRING"
          [] t[4] = "BytesValue" -> "BYTES"
          [] t[4] = "Timestamp" -> "TIMESTAMP"]

typeFromFieldType ==
    [t \in {"TYPE_DOUBLE", "TYPE_FLOAT", "TYPE_INT64", "TYPE_UINT64", "TYPE_INT32",
            "TYPE_UINT32", "TYPE_FIXED64", "TYPE_FIXED32", "TYPE_SFIXED32",
            "TYPE_SFIXED64", "TYPE_SINT32", "TYPE_SINT64", "TYPE_STRING",
            "TYPE_BYTES", "TYPE_ENUM", "TYPE_BOOL", "TYPE_GROUP", "TYPE_MESSAGE"} |->
        CASE t \in {"TYPE_DOUBLE", "TYPE_FLOAT"} -> "FLOAT"
          [] t \in {"TYPE_STRING", "TYPE_ENUM"} -> "STRING"
          [] t = "TYPE_BYTES" -> "BYTES"
          [] t = "TYPE_BOOL" -> "BOOLEAN"
          [] t \in {"TYPE_GROUP", "TYPE_MESSAGE"} -> "RECORD"
          [] OTHER -> "INTEGER"]

modeFromFieldLabel ==
    [l \in {"LABEL_OPTIONAL", "LABEL_REQUIRED", "LABEL_REPEATED"} |->
        CASE l = "LABEL_OPTIONAL" -> "NULLABLE"
          [] l = "LABEL_REQUIRED" -> "REQUIRED"
          [] l = "LABEL_REPEATED" -> "REPEATED"]

(***************************************************************************)
(* Field descriptors, field options and message options.                   *)
(***************************************************************************)
\* protos.BigQueryFieldOptions
FieldOptions(ignore, require, typeOverride, name, description) ==
    <<[Ignore |-> ignore, Require |-> require, TypeOverride |-> typeOverride,
       Name |-> name, Description |-> description]>>

Ignored == FieldOptions(TRUE, FALSE, "", "", "")

\* descriptor.FieldDescriptorProto; type_name is "" for a scalar field.
FieldDesc(name, label, type, typeName, options) ==
    [name |-> name, json_name |-> "", label |-> label, type |-> type,
     type_name |-> typeName, options |-> options]

Scalar(name, label, type) == FieldDesc(name, label, type, <<"">>, <<>>)

\* MessageOptions carrying the event_name and event_version extensions.
EventOptions(eventName, eventVersion) ==
    <<[event_name |-> eventName, event_version |-> eventVersion]>>

\* getBigqueryMessageOptions(msg): nil without options or without either
\* extension; else the options with TableName "<event_name>_v<event_version>".
getBigqueryMessageOptions(msg) ==
    IF msg.options = <<>> THEN <<>>
    ELSE IF msg.options[1].event_name = <<>> \/ msg.options[1].event_version = <<>>
    THEN <<>>
    ELSE <<[TableName |-> <<msg.options[1].event_name[1], "_v",
                            msg.options[1].event_version[1]>>,
            UseJsonNames |-> FALSE]>>

(***************************************************************************)
(* convertField, up to the recursive call.                                 *)
(***************************************************************************)
Error(text, arg) == <<[text |-> text, arg |-> arg]>>

NoColumn == [Name |-> "", Type |-> "", Mode |-> "", Description |-> "", Fields |-> <<>>]

\* What convertField does before it would call convertMessageType:
\*   error   return nil, err          skip   return nil, nil
\*   field   return field, nil        record the call of convertMessageType
Outcome(kind, e, field, recordType) ==
    [kind |-> kind, err |-> e, field |-> field, recordType |-> recordType]

\* A plausible slip: the ignore option is not honoured.
applyFieldOptions_noIgnore(field, opts) ==
    IF opts = <<>> THEN <<field>>
    ELSE <<[field EXCEPT
              !.Mode = IF opts[1].Require THEN "REQUIRED" ELSE @,
              !.Type = IF opts[1].TypeOverride # "" THEN opts[1].TypeOverride ELSE @,
              !.Name = IF opts[1].Name # "" THEN opts[1].Name ELSE @,
              !.Description = IF opts[1].Description # "" THEN opts[1].Description ELSE @]>>

\* The bigquery field options applied to the field: nil when it is ignored.
applyFieldOptions(field, opts) ==
    IF opts = <<>> THEN <<field>>
    ELSE IF opts[1].Ignore THEN <<>>
    ELSE <<[field EXCEPT
              !.Mode = IF opts[1].Require THEN "REQUIRED" ELSE @,
              !.Type = IF opts[1].TypeOverride # "" THEN opts[1].TypeOverride ELSE @,
              !.Name = IF opts[1].Name # "" THEN opts[1].Name ELSE @,
              !.Description = IF opts[1].Description # "" THEN opts[1].Description ELSE @]>>

convertFieldHead(g, curPkg, desc, msgOpts) ==
    LET name == IF msgOpts # <<>> /\ msgOpts[1].UseJsonNames /\ desc.json_name # ""
                THEN desc.json_name ELSE desc.name
    IN
    IF desc.label \notin DOMAIN modeFromFieldLabel
    THEN Outcome("error", Error("unrecognized field label", <<desc.label>>), NoColumn, <<>>)
    ELSE IF desc.type \notin DOMAIN typeFromFieldType
    THEN Outcome("error", Error("unrecognized field type", <<desc.type>>), NoColumn, <<>>)
    ELSE
    LET applied == applyFieldOptions(
                       [Name |-> name, Type |-> typeFromFieldType[desc.type],
                        Mode |-> modeFromFieldLabel[desc.label],
                        Description |-> "", Fields |-> <<>>],
                       desc.options)
    IN
    IF applied = <<>> THEN Outcome("skip", <<>>, NoColumn, <<>>)
    ELSE IF applied[1].Type # "RECORD" THEN Outcome("field", <<>>, applied[1], <<>>)
    ELSE IF desc.type_name \in DOMAIN typeFromWKT
    THEN Outcome("field", <<>>, [applied[1] EXCEPT !.Type = typeFromWKT[desc.type_name]], <<>>)
    ELSE
    LET recordType == lookupType(g, curPkg, desc.type_name)
    IN
    IF recordType = <<>>
    THEN Outcome("error", Error("no such message type named", desc.type_name), NoColumn, <<>>)
    ELSE Outcome("record", <<>>, applied[1], recordType)

\* A plausible slip: a RECORD without nested columns is kept.
recordField_keepEmpty(field, fields) == <<[field EXCEPT !.Fields = fields]>>

\* convertField after convertMessageType returned fields without error:
\* nil for a RECORD that would have zero fields.
recordField(field, fields) ==
    IF Len(fields) = 0 THEN <<>> ELSE <<[field EXCEPT !.Fields = fields]>>

\* An activation of convertMessageType(curPkg, msg, opts): idx is the place
\* of its loop over msg.field, schema what it has appended, and field the
\* column of the convertField call that is waiting for a nested conversion.
Frame(curPkg, msg, opts) ==
    [curPkg |-> curPkg, msg |-> msg, opts |-> opts, idx |-> 1, schema |-> <<>>,
     field |-> <<>>]

OnStack(st, msg) == \E k \in 1..Len(st) : st[k].msg = msg

\* A cycle guard the code does not have: a message that is already being
\* converted is not entered again, the field is skipped.
enterRecord_guarded(st, field, recordType) ==
    IF OnStack(st, recordType)
    THEN [st EXCEPT ![Len(st)].idx = @ + 1]
    ELSE Append([st EXCEPT ![Len(st)].field = <<field>>],
                Frame(st[Len(st)].curPkg, recordType,
                      getBigqueryMessageOptions(recordType)))

\* convertField calling convertMessageType(curPkg, recordType, fieldMsgOpts)
\* with fieldMsgOpts := getBigqueryMessageOptions(recordType).
enterRecord(st, field, recordType) ==
    Append([st EXCEPT ![Len(st)].field = <<field>>],
           Frame(st[Len(st)].curPkg, recordType,
                 getBigqueryMessageOptions(recordType)))

(***************************************************************************)
(* Inputs of Convert: the files a request is made of.                      *)
(***************************************************************************)
FileDesc(name, package, messages) ==
    [name |-> name, package |-> package, message_type |-> messages]

\* file.GetPackage(): "" when the package is not set.
GetPackage(file) == IF file.package = <<>> THEN <<"">> ELSE file.package[1]

MessageField(name, label, typeName) ==
    FieldDesc(name, label, "TYPE_MESSAGE", typeName, <<>>)

MsgB == Msg("B", <<Scalar("y", "LABEL_OPTIONAL", "TYPE_STRING"),
                   FieldDesc("secret", "LABEL_OPTIONAL", "TYPE_BYTES", <<"">>, Ignored)>>,
            <<>>, EventOptions(<<"b">>, <<>>))
MsgD == Msg("D", <<MessageField("inner", "LABEL_OPTIONAL", <<"B">>)>>,
            <<>>, EventOptions(<<"d">>, <<"2">>))
MsgA == Msg("A", <<Scalar("id", "LABEL_REQUIRED", "TYPE_INT64"),
                   MessageField("ts", "LABEL_REPEATED", WKT("Timestamp")),
                   MessageField("b", "LABEL_OPTIONAL", <<"", "b", "B">>),
                   FieldDesc("raw", "LABEL_OPTIONAL", "TYPE_MESSAGE", <<"", "b", "B">>,
                             FieldOptions(FALSE, FALSE, "STRING", "", "")),
                   FieldDesc("name", "LABEL_OPTIONAL", "TYPE_STRING", <<"">>,
                             FieldOptions(FALSE, TRUE, "", "nm", "the name"))>>,
            <<>>, EventOptions(<<"a">>, <<"1">>))
MsgX == Msg("X", <<MessageField("d", "LABEL_OPTIONAL", <<"", "b", "D">>)>>,
            <<>>, EventOptions(<<"x">>, <<"1">>))
MsgR == Msg("R", <<Scalar("f", "LABEL_OPTIONAL", "TYPE_STRING")>>, <<>>, NoOptions)
MsgR2 == Msg("R2", <<FieldDesc("f", "LABEL_OPTIONAL", "TYPE_STRING", <<"">>, Ignored)>>,
             <<>>, NoOptions)
MsgQ == Msg("Q", <<MessageField("r", "LABEL_OPTIONAL", <<"", "t", "R2">>)>>,
            <<>>, NoOptions)
MsgT == Msg("T", <<Scalar("id", "LABEL_OPTIONAL", "TYPE_INT32"),
                   FieldDesc("self", "LABEL_OPTIONAL", "TYPE_MESSAGE", <<"", "t", "T">>, Ignored),
                   FieldDesc("lost", "LABEL_OPTIONAL", "TYPE_MESSAGE", <<"", "no", "Such">>, Ignored),
                   MessageField("q", "LABEL_OPTIONAL", <<"", "t", "Q">>),
                   Scalar("n", "LABEL_REPEATED", "TYPE_BOOL")>>,
            <<>>, EventOptions(<<"t">>, <<"1">>))
MsgV == Msg("V", <<MessageField("u", "LABEL_REPEATED", <<"", "u", "U">>)>>, <<>>, NoOptions)
MsgU == Msg("U", <<Scalar("id", "LABEL_OPTIONAL", "TYPE_INT32"),
                   MessageField("v", "LABEL_OPTIONAL", <<"", "u", "V">>)>>,
            <<>>, EventOptions(<<"u">>, <<"1">>))
MsgK == Msg("K", <<Scalar("ok", "LABEL_OPTIONAL", "TYPE_DOUBLE"),
                   FieldDesc("bad", "LABEL_0", "TYPE_STRING", <<"">>, Ignored)>>,
            <<>>, EventOptions(<<"k">>, <<"1">>))
MsgW == Msg("W", <<FieldDesc("forced", "LABEL_OPTIONAL", "TYPE_STRING", <<"">>,
                             FieldOptions(FALSE, FALSE, "RECORD", "", ""))>>,
            <<>>, EventOptions(<<"w">>, <<"1">>))
MsgO == Msg("O", <<FieldDesc("odd", "LABEL_OPTIONAL", "TYPE_0", <<"">>, Ignored)>>,
            <<>>, EventOptions(<<"o">>, <<"1">>))

FileA == FileDesc("a.proto", <<<<"a">>>>, <<MsgA>>)
FileB == FileDesc("b.proto", <<<<"b">>>>, <<MsgB, MsgD>>)
FileX == FileDesc("x.proto", <<<<"a", "x">>>>, <<MsgX>>)
FileR == FileDesc("r.proto", <<>>, <<MsgR>>)
FileT == FileDesc("t.proto", <<<<"t">>>>, <<MsgT, MsgQ, MsgR2>>)
FileU == FileDesc("u.proto", <<<<"u">>>>, <<MsgU, MsgV>>)
FileK == FileDesc("k.proto", <<<<"k">>>>, <<MsgK>>)
FileW == FileDesc("w.proto", <<<<"k">>>>, <<MsgW>>)
FileO == FileDesc("o.proto", <<<<"k">>>>, <<MsgO>>)

Files == {FileA, FileB, FileX, FileR, FileT, FileU, FileK, FileW, FileO}

InSeq(s, x) == \E i \in 1..Len(s) : s[i] = x

\* The sequences of at most n distinct files.
RECURSIVE FileSeqs(_)
FileSeqs(n) ==
    IF n = 0 THEN {<<>>}
    ELSE LET shorter == FileSeqs(n - 1)
             longest == {t \in shorter : Len(t) = n - 1}
         IN  shorter \cup UNION {{Append(s, f) : f \in {h \in Files : ~InSeq(s, h)}} :
                                    s \in longest}

\* A request: up to MaxFiles files in some order, some of them to generate.
Requests ==
    UNION {{[file_to_generate |-> names, proto_file |-> files] :
               names \in SUBSET {files[i].name : i \in 1..Len(files)}} :
           files \in FileSeqs(MaxFiles) \ {<<>>}}

(***************************************************************************)
(* Convert, convertFile, convertMessageType and convertField as steps.     *)
(* pc: "idle" (Convert not called yet), "register" and "convert" (the two  *)
(* loops of Convert), "file" (the loop of convertFile), "message" (inside  *)
(* convertMessageType), "returned" (Convert returned res, err) and         *)
(* "overflow" (the recursion exhausted the goroutine stack: the Go runtime *)
(* ends the process).                                                      *)
(***************************************************************************)
\* A plausible slip: only the files to generate are registered.
RECURSIVE registerCalls_targetsOnly(_)
registerCalls_targetsOnly(r) ==
    IF r.proto_file = <<>> THEN <<>>
    ELSE LET file == Head(r.proto_file)
             rest == registerCalls_targetsOnly([r EXCEPT !.proto_file = Tail(@)])
         IN  IF file.name \in r.file_to_generate
             THEN [i \in 1..Len(file.message_type) |->
                      [pkgName |-> file.package, msg |-> file.message_type[i]]] \o rest
             ELSE rest

\* The registerType calls of Convert's first loops, in order: every message
\* of every file of the request.
RECURSIVE registerCalls(_)
registerCalls(r) ==
    IF r.proto_file = <<>> THEN <<>>
    ELSE LET file == Head(r.proto_file)
         IN  [i \in 1..Len(file.message_type) |->
                 [pkgName |-> file.package, msg |-> file.message_type[i]]]
             \o registerCalls([r EXCEPT !.proto_file = Tail(@)])

\* Convert(req) begins: globalPkg is a package-level variable, which Convert
\* does not reset.
Begin(r) ==
    /\ req' = r
    /\ calls' = calls + 1
    /\ pc' = "register"
    /\ ri' = 1
    /\ fi' = 1
    /\ res' = NoResponse
    /\ err' = <<>>
    /\ filePkg' = <<>>
    /\ mi' = 1
    /\ response' = <<>>
    /\ stack' = <<>>
    /\ regLog' = <<>>
    /\ UNCHANGED <<globalPkg, query>>

\* Convert is called, for the first time in this process.
Convert ==
    /\ pc = "idle"
    /\ \E r \in Requests : Begin(r)

\* Convert is called again after it returned, in the same process.
ConvertAgain ==
    /\ pc = "returned"
    /\ calls < MaxCalls
    /\ \E r \in Requests : Begin(r)

\* One registerType call of the first loops.
Register ==
    /\ pc = "register"
    /\ ri <= Len(registerCalls(req))
    /\ LET c == registerCalls(req)[ri]
       IN  /\ globalPkg' = registerType(globalPkg, c.pkgName, c.msg)
           /\ regLog' = Append(regLog, c)
    /\ ri' = ri + 1
    /\ UNCHANGED <<query, calls, pc, req, fi, res, err, filePkg, mi, response, stack>>

\* The first loops are done; the second loop starts.
RegisterDone ==
    /\ pc = "register"
    /\ ri > Len(registerCalls(req))
    /\ pc' = "convert"
    /\ fi' = 1
    /\ UNCHANGED <<globalPkg, regLog, query, calls, req, ri, res, err, filePkg, mi,
                   response, stack>>

\* Convert returning res with res.Error set, and the error.
Fails(e) ==
    /\ res' = [res EXCEPT !.Error = <<[file |-> req.proto_file[fi].name, cause |-> e]>>]
    /\ err' = e
    /\ pc' = "returned"
    /\ stack' = <<>>

\* The second loop skips a file that is not to be generated.
SkipFile ==
    /\ pc = "convert"
    /\ fi <= Len(req.proto_file)
    /\ req.proto_file[fi].name \notin req.file_to_generate
    /\ fi' = fi + 1
    /\ UNCHANGED <<globalPkg, regLog, query, calls, pc, req, ri, res, err, filePkg, mi,
                   response, stack>>

\* The second loop calls convertFile, which looks up the file's package.
convertFile ==
    /\ pc = "convert"
    /\ fi <= Len(req.proto_file)
    /\ req.proto_file[fi].name \in req.file_to_generate
    /\ LET file == req.proto_file[fi]
           found == relativelyLookupPackage(globalPkg, GlobalPkgAddr, GetPackage(file))
       IN  IF found = <<>>
           THEN /\ Fails(Error("no such package found", GetPackage(file)))
                /\ UNCHANGED <<filePkg, mi, response>>
           ELSE /\ filePkg' = found
                /\ mi' = 1
                /\ response' = <<>>
                /\ pc' = "file"
                /\ UNCHANGED <<res, err, stack>>
    /\ UNCHANGED <<globalPkg, regLog, query, calls, req, ri, fi>>

\* Convert returns res, nil after the second loop.
ConvertReturn ==
    /\ pc = "convert"
    /\ fi > Len(req.proto_file)
    /\ pc' = "returned"
    /\ err' = <<>>
    /\ UNCHANGED <<globalPkg, regLog, query, calls, req, ri, fi, res, filePkg, mi,
                   response, stack>>

\* json.MarshalIndent(schema, "", " "): a nil slice is encoded as null.
MarshalIndent(schema) == [null |-> schema = <<>>, array |-> schema]

\* The loop of convertFile at one message: skipped without options or
\* table name, else convertMessageType(pkg, msg, opts) is called.
convertFileMessage ==
    /\ pc = "file"
    /\ mi <= Len(req.proto_file[fi].message_type)
    /\ LET msg == req.proto_file[fi].message_type[mi]
           opts == getBigqueryMessageOptions(msg)
       IN  IF opts = <<>> \/ Len(opts[1].TableName) = 0
           THEN /\ mi' = mi + 1
                /\ UNCHANGED <<pc, stack>>
           ELSE /\ stack' = <<Frame(filePkg[1], msg, opts)>>
                /\ pc' = "message"
                /\ UNCHANGED mi
    /\ UNCHANGED <<globalPkg, regLog, query, calls, req, ri, fi, res, err, filePkg,
                   response>>

\* convertFile returns its artifacts; Convert appends them to res.File.
convertFileReturn ==
    /\ pc = "file"
    /\ mi > Len(req.proto_file[fi].message_type)
    /\ res' = [res EXCEPT !.File = @ \o response]
    /\ fi' = fi + 1
    /\ pc' = "convert"
    /\ UNCHANGED <<globalPkg, regLog, query, calls, req, ri, err, filePkg, mi, response,
                   stack>>

\* convertMessageType calls convertField for its next field.  An error is
\* returned through every active call up to Convert.
convertField ==
    /\ pc = "message"
    /\ LET top == stack[Len(stack)] IN
       /\ top.idx <= Len(top.msg.field)
       /\ LET out == convertFieldHead(globalPkg, top.curPkg, top.msg.field[top.idx],
                                      top.opts)
          IN  CASE out.kind = "error" ->
                     /\ Fails(out.err)
                 [] out.kind = "skip" ->
                     /\ stack' = [stack EXCEPT ![Len(stack)].idx = @ + 1]
                     /\ UNCHANGED <<pc, res, err>>
                 [] out.kind = "field" ->
                     /\ stack' = [stack EXCEPT ![Len(stack)].idx = @ + 1,
                                               ![Len(stack)].schema = Append(@, out.field)]
                     /\ UNCHANGED <<pc, res, err>>
                 [] out.kind = "record" ->
                     IF Len(stack) < MaxDepth
                     THEN /\ stack' = enterRecord(stack, out.field, out.recordType[1])
                          /\ UNCHANGED <<pc, res, err>>
                     ELSE /\ pc' = "overflow"
                          /\ UNCHANGED <<stack, res, err>>
    /\ UNCHANGED <<globalPkg, regLog, query, calls, req, ri, fi, filePkg, mi, response>>

\* convertMessageType returns its schema: to the convertField call that is
\* waiting for it, or to convertFile, which makes the artifact of it.
convertMessageType ==
    /\ pc = "message"
    /\ LET top == stack[Len(stack)] IN
       /\ top.idx > Len(top.msg.field)
       /\ IF Len(stack) > 1
          THEN LET caller == stack[Len(stack) - 1]
                   field == recordField(caller.field[1], top.schema)
               IN  /\ stack' = [SubSeq(stack, 1, Len(stack) - 1) EXCEPT
                                   ![Len(stack) - 1].idx = @ + 1,
                                   ![Len(stack) - 1].field = <<>>,
                                   ![Len(stack) - 1].schema = @ \o field]
                   /\ UNCHANGED <<pc, mi, response>>
          ELSE /\ response' = Append(response,
                      [Name |-> [dir |-> GetPackage(req.proto_file[fi]),
                                 table |-> top.opts[1].TableName],
                       Content |-> MarshalIndent(top.schema)])
               /\ stack' = <<>>
               /\ mi' = mi + 1
               /\ pc' = "file"
    /\ UNCHANGED <<globalPkg, regLog, query, calls, req, ri, fi, res, err, filePkg>>

Next ==
    \/ Convert
    \/ Register
    \/ RegisterDone
    \/ SkipFile
    \/ convertFile
    \/ ConvertReturn
    \/ convertFileMessage
    \/ convertFileReturn
    \/ convertField
    \/ convertMessageType

\* One process that calls Convert once, as the plugin does.
Spec == Init /\ [][Next]_vars

\* One process that calls Convert up to MaxCalls times.
NextSeq == Next \/ ConvertAgain

SpecSeq == Init /\ [][NextSeq]_vars

\* Convert runs on one goroutine that is never suspended: a step that can
\* be taken is taken.
FairSpec == Spec /\ WF_vars(Next)

(***************************************************************************)
(* Properties of the namespace, stated for SpecNs.                         *)
(***************************************************************************)
\* The message most recently registered under a node name and simple name,
\* read off the history of registerType calls.
Registered(log, node, simple) ==
    {i \in 1..Len(log) : NodeName(log[i].pkgName) = node /\ log[i].msg.name = simple}

Latest(log, node, simple) ==
    LET hits == Registered(log, node, simple)
    IN  log[CHOOSE i \in hits : \A j \in hits : j <= i].msg

\* C9: after any sequence of registerType calls, lookupType of the
\* fully-qualified absolute reference of any registered message, from any
\* node, succeeds and returns the message most recently registered under
\* that package and simple name.
C9_AbsoluteLookupRoundTrip ==
    query # NoQuery =>
        \A i \in 1..Len(regLog) :
            query[1].name = AbsRef(regLog[i].pkgName, regLog[i].msg.name) =>
                query[1].found =
                    <<Latest(regLog, NodeName(regLog[i].pkgName), regLog[i].msg.name)>>

\* C9 witness: a name registered twice in one package with different
\* messages is looked up from a non-root node and yields the later one.
C9_Witness ==
    /\ query # NoQuery
    /\ query[1].pkg # GlobalPkgAddr
    /\ \E i, j \in 1..Len(regLog) :
          /\ i < j
          /\ NodeName(regLog[i].pkgName) = NodeName(regLog[j].pkgName)
          /\ regLog[i].msg.name = regLog[j].msg.name
          /\ regLog[i].msg # regLog[j].msg
          /\ Registered(regLog, NodeName(regLog[j].pkgName), regLog[j].msg.name) \subseteq 1..j
          /\ query[1].name = AbsRef(regLog[j].pkgName, regLog[j].msg.name)
          /\ query[1].found = <<regLog[j].msg>>

\* C3 (as claimed): within one node, with message Outer (nested message
\* Inner) declared in that node, "Outer.Inner" resolves to Inner whatever
\* else the namespace holds, and "Outer.DoesNotExist" is not found.
C3_NestedLookupFallsBack ==
    (/\ query # NoQuery
     /\ Registered(regLog, query[1].pkg, "Outer") # {}
     /\ Latest(regLog, query[1].pkg, "Outer") = Outer) =>
        /\ query[1].name = <<"Outer", "Inner">> => query[1].here = <<Inner>>
        /\ query[1].name = <<"Outer", "DoesNotExist">> => query[1].here = <<>>

(***************************************************************************)
(* Properties of Convert, stated for Spec, SpecSeq and FairSpec.           *)
(***************************************************************************)
Column(name, type, mode, description, fields) ==
    [Name |-> name, Type |-> type, Mode |-> mode, Description |-> description,
     Fields |-> fields]

Running == pc \in {"register", "convert", "file", "message"}

Converting == pc \in {"convert", "file", "message", "returned", "overflow"}

\* The messages of the files of a request, each with its file's package.
MessagesOf(r) ==
    UNION {{[pkgName |-> r.proto_file[i].package, msg |-> r.proto_file[i].message_type[j]] :
               j \in 1..Len(r.proto_file[i].message_type)} :
           i \in 1..Len(r.proto_file)}

\* C1: within one Convert invocation every message of every input file is
\* registered before the first convertFile call; hence, in every order of
\* the files, the fully-qualified reference of a top-level message of any
\* input file (requested or not, earlier or later) resolves from every
\* package, and no conversion fails with "no such message type" for it.
C1_RegistrationBeforeConversion ==
    Converting =>
        \A c \in MessagesOf(req) :
            /\ \E k \in 1..Len(regLog) : regLog[k] = c
            /\ \A node \in DOMAIN globalPkg :
                  LET found == lookupType(globalPkg, node, AbsRef(c.pkgName, c.msg.name))
                  IN  found # <<>> /\ found[1].name = c.msg.name
            /\ ~(/\ pc = "returned"
                 /\ err # <<>>
                 /\ err[1].text = "no such message type named"
                 /\ err[1].arg = AbsRef(c.pkgName, c.msg.name))

SchemaA ==
    <<Column("id", "INTEGER", "REQUIRED", "", <<>>),
      Column("ts", "TIMESTAMP", "REPEATED", "", <<>>),
      Column("b", "RECORD", "NULLABLE", "",
             <<Column("y", "STRING", "NULLABLE", "", <<>>)>>),
      Column("raw", "STRING", "NULLABLE", "", <<>>),
      Column("nm", "STRING", "REQUIRED", "the name", <<>>)>>

\* C1 witness: a.proto is requested and comes first, b.proto is not
\* requested and comes later; field b of A, of type .b.B, has resolved.
C1_Witness ==
    /\ pc = "returned"
    /\ err = <<>>
    /\ req.proto_file = <<FileA, FileB>>
    /\ req.file_to_generate = {"a.proto"}
    /\ res.File = <<[Name |-> [dir |-> <<"a">>, table |-> <<"a", "_v", "1">>],
                     Content |-> [null |-> FALSE, array |-> SchemaA]]>>

\* C2 (as claimed): each Convert call starts from an empty namespace: every
\* message type the namespace holds during a call was registered by that
\* call.
C2_NamespaceStartsEmpty ==
    Running =>
        \A node \in DOMAIN globalPkg :
            \A simple \in DOMAIN globalPkg[node].types :
                \E k \in 1..Len(regLog) :
                    /\ NodeName(regLog[k].pkgName) = node
                    /\ regLog[k].msg = globalPkg[node].types[simple]

\* The nodes in which a message, or a message it is nested in, is declared.
RECURSIVE NestedIn(_, _)
NestedIn(desc, outer) ==
    \/ desc = outer
    \/ \E i \in 1..Len(outer.nested_type) : NestedIn(desc, outer.nested_type[i])

DeclaringPackages(g, desc) ==
    {node \in DOMAIN g :
        \E simple \in DOMAIN g[node].types : NestedIn(desc, g[node].types[simple])}

\* C4 (as claimed): convertField converts the resolved record message with
\* that message's own options and with the package that declares it as the
\* current package.
C4_RecursesInDeclaringPackage ==
    \A k \in 2..Len(stack) :
        /\ stack[k].opts = getBigqueryMessageOptions(stack[k].msg)
        /\ stack[k].curPkg \in DeclaringPackages(globalPkg, stack[k].msg)

\* C5 (as claimed): when Convert returns an error, the response names the
\* offending file and holds no generated artifact.
C5_NoArtifactsOnError ==
    (pc = "returned" /\ err # <<>>) =>
        /\ res.Error # <<>>
        /\ res.Error[1].file = req.proto_file[fi].name
        /\ res.File = <<>>

Annotated(desc) ==
    /\ desc.options # <<>>
    /\ desc.options[1].event_name # <<>>
    /\ desc.options[1].event_version # <<>>

\* C6 (as claimed): a requested file, whatever its package, none of whose
\* messages carries both annotations converts without error (to no artifact).
C6_UnannotatedFileConvertsToNothing ==
    (pc = "returned" /\ err # <<>>) =>
        \E i \in 1..Len(req.proto_file[fi].message_type) :
            Annotated(req.proto_file[fi].message_type[i])

RECURSIVE WellFormed(_)
WellFormed(schema) ==
    \A i \in 1..Len(schema) :
        /\ (schema[i].Fields # <<>>) <=> (schema[i].Type = "RECORD")
        /\ WellFormed(schema[i].Fields)

\* C7: in every column list convertMessageType builds or returns, at every
\* depth, a column has nested columns iff its type is RECORD (so a RECORD is
\* never empty: a record field without surviving columns is left out).
C7_RecordIffNestedColumns ==
    /\ \A k \in 1..Len(stack) : WellFormed(stack[k].schema)
    /\ \A k \in 1..Len(response) : WellFormed(response[k].Content.array)
    /\ \A k \in 1..Len(res.File) : WellFormed(res.File[k].Content.array)

\* C7 witness: T is converted; its field q of type Q, whose only field r is
\* of type R2, whose only field is dropped, is left out of T's columns.
C7_Witness ==
    /\ pc = "returned"
    /\ err = <<>>
    /\ req.proto_file = <<FileT>>
    /\ res.File = <<[Name |-> [dir |-> <<"t">>, table |-> <<"t", "_v", "1">>],
                     Content |-> [null |-> FALSE,
                                  array |-> <<Column("id", "INTEGER", "NULLABLE", "", <<>>),
                                              Column("n", "BOOLEAN", "REPEATED", "", <<>>)>>]]>>

\* The field convertMessageType is about to convert carries the drop option.
AtDroppedField ==
    /\ pc = "message"
    /\ stack[Len(stack)].idx <= Len(stack[Len(stack)].msg.field)
    /\ LET desc == stack[Len(stack)].msg.field[stack[Len(stack)].idx]
       IN  desc.options # <<>> /\ desc.options[1].Ignore

Recognized(desc) ==
    /\ desc.label \in {"LABEL_OPTIONAL", "LABEL_REQUIRED", "LABEL_REPEATED"}
    /\ desc.type \in DOMAIN typeFromFieldType

DroppedSilently ==
    /\ pc' = "message"
    /\ err' = <<>>
    /\ stack' = [stack EXCEPT ![Len(stack)].idx = @ + 1]

\* C8 (as claimed): a field with the drop option is omitted without error
\* whatever its kind and label, and the conversion goes on with the next
\* field.
C8_DroppedWhateverKindOrLabel ==
    [][AtDroppedField => DroppedSilently]_vars

\* C8 (amended): a field with the drop option whose label and kind are
\* recognized is omitted without error (also when its type reference is
\* unresolvable or refers to the message itself), and the conversion goes
\* on with the next field.
C8_DroppedWhenRecognized ==
    [][(AtDroppedField
          /\ Recognized(stack[Len(stack)].msg.field[stack[Len(stack)].idx]))
         => DroppedSilently]_vars

\* C8 witness: in T, the dropped fields self (of T's own type) and lost (of
\* an unresolvable type) have been passed; only id is in the columns.
C8_Witness ==
    /\ pc = "message"
    /\ Len(stack) = 1
    /\ stack[1].msg = MsgT
    /\ stack[1].idx = 4
    /\ stack[1].schema = <<Column("id", "INTEGER", "NULLABLE", "", <<>>)>>

\* The messages the message-typed fields of a message refer to, whatever
\* the options of the fields.
Referenced(g, curPkg, desc) ==
    {lookupType(g, curPkg, desc.field[i].type_name)[1] :
        i \in {j \in 1..Len(desc.field) :
                  /\ desc.field[j].type \in {"TYPE_MESSAGE", "TYPE_GROUP"}
                  /\ lookupType(g, curPkg, desc.field[j].type_name) # <<>>}}

RECURSIVE ReachableIn(_, _, _, _)
ReachableIn(g, curPkg, from, n) ==
    IF n = 0 THEN {}
    ELSE LET direct == UNION {Referenced(g, curPkg, d) : d \in from}
         IN  direct \cup ReachableIn(g, curPkg, direct, n - 1)

\* The messages reachable from a message through one or more fields.
Reachable(g, curPkg, desc) == ReachableIn(g, curPkg, {desc}, MaxDepth + 2)

\* The message directly or transitively contains a field of its own type.
ContainsItself(g, curPkg, desc) == desc \in Reachable(g, curPkg, desc)

\* The record-reference graph of the message has no cycle.
Acyclic(g, curPkg, desc) ==
    \A d \in {desc} \cup Reachable(g, curPkg, desc) : ~ContainsItself(g, curPkg, d)

\* C10 (as claimed): the conversion of a message that directly or
\* transitively contains a field of its own type never returns.
C10_SelfContainingNeverReturns ==
    [][(pc = "message" /\ ContainsItself(globalPkg, stack[1].curPkg, stack[1].msg))
         => pc' \in {"message", "overflow"}]_vars

\* A message is being converted inside its own conversion.
Reentered(st) == \E j, k \in 1..Len(st) : j < k /\ st[j].msg = st[k].msg

\* The next field is a record field that convertField resolves to a message
\* which is being converted already.
AtFieldOfActiveType ==
    /\ pc = "message"
    /\ stack[Len(stack)].idx <= Len(stack[Len(stack)].msg.field)
    /\ LET desc == stack[Len(stack)].msg.field[stack[Len(stack)].idx]
           found == lookupType(globalPkg, stack[Len(stack)].curPkg, desc.type_name)
       IN  /\ Recognized(desc)
           /\ desc.type \in {"TYPE_MESSAGE", "TYPE_GROUP"}
           /\ desc.options = <<>>
           /\ desc.type_name \notin DOMAIN typeFromWKT
           /\ found # <<>>
           /\ OnStack(stack, found[1])

\* C10 (amended): there is no cycle guard: a record field that resolves to
\* a message which is being converted already is entered again, and from
\* then on the conversion never returns (the recursion is unbounded); the
\* recursion only overflows that way; and the conversion of a message whose
\* record-reference graph is acyclic always terminates.
C10_NoCycleGuard ==
    /\ [][AtFieldOfActiveType =>
            \/ pc' = "overflow"
            \/ /\ Len(stack') = Len(stack) + 1
               /\ Reentered(stack')]_vars
    /\ [][Reentered(stack) => (Reentered(stack') /\ pc' \in {"message", "overflow"})]_vars
    /\ [](pc = "overflow" => (Reentered(stack)
                               /\ ~Acyclic(globalPkg, stack[1].curPkg, stack[1].msg)))
    /\ ((pc = "message" /\ Acyclic(globalPkg, stack[1].curPkg, stack[1].msg))
          ~> (pc \in {"file", "returned"}))

\* C10 witness: U is being converted inside the conversion of its field v of
\* type V, whose field u is of type U.
C10_Witness ==
    /\ pc = "message"
    /\ Len(stack) = 3
    /\ stack[1].msg = MsgU
    /\ stack[2].msg = MsgV
    /\ stack[3].msg = MsgU

====
